---- MODULE Spec2Model ----
(***************************************************************************)
(* Shielded airdrop wallet (Zcash notes -> MASP claims).                   *)
(*                                                                         *)
(* src/src/lib.rs    the protocol core: notes, nullifier sets, claim       *)
(*                   statements, transactions, validate, and the           *)
(*                   in-memory AirdropWallet.                              *)
(* src/src/wallet.rs the persistent AirdropWallet: a sled database, the    *)
(*                   in-memory wallet of lib.rs as its core_wallet field,  *)
(*                   and the wallet metadata.                              *)
(*                                                                         *)
(* Byte arrays are modelled by the number they hold: a 32-byte array whose *)
(* first 8 bytes are x.to_le_bytes() and whose other bytes are 0 is the    *)
(* natural number x.  Proof bytes are vectors of zero bytes in the source  *)
(* and are verified by their length alone, so a proof is its length.       *)
(***************************************************************************)
EXTENDS Integers, Sequences, FiniteSets, TLC

VARIABLES
    sapling_notes,            \* core_wallet.sapling_notes : Vec<SaplingNote>
    orchard_notes,            \* core_wallet.orchard_notes : Vec<OrchardNote>
    nullifier_set,            \* core_wallet.nullifier_set (ordinary spends)
    airdrop_nullifier_set,    \* core_wallet.airdrop_nullifier_set (claims)
    metadata,                 \* wallet.rs AirdropWallet.metadata
    db_metadata,              \* sled key "metadata" of the default tree
    db_sapling_notes,         \* sled tree "sapling_notes": position -> record
    db_orchard_notes,         \* sled tree "orchard_notes": position -> record
    db_nullifier_set,         \* sled tree "nullifier_set": set of keys
    db_airdrop_nullifier_set, \* sled tree "airdrop_nullifier_set": set of keys
    db_transactions,          \* sled tree "transactions": tx_hash -> record
    tx,                       \* the transaction the caller holds (last one built)
    result,                   \* the last operation and what it returned
    accepted,                 \* history: one transaction the wallet accepted
    submitted,                \* history: the pools of the transactions processed
    derived                   \* history: the last two nullifier derivations

core_vars == <<sapling_notes, orchard_notes, nullifier_set, airdrop_nullifier_set>>
db_vars   == <<metadata, db_metadata, db_sapling_notes, db_orchard_notes,
               db_nullifier_set, db_airdrop_nullifier_set,
               db_transactions>>
call_vars == <<tx, result>>
hist_vars == <<accepted, submitted, derived>>
vars      == <<core_vars, db_vars, call_vars, hist_vars>>

----------------------------------------------------------------------------
(* Bounds of the model *)

\* note positions are 0..MaxPos
MaxPos == 1
\* note values are 1..MaxValue
MaxValue == 1
\* notes are added while the wallet holds fewer than MaxNotes notes
MaxNotes == 2
\* timestamps (seconds since the epoch) are 0..MaxTime
MaxTime == 0

\* the proof lengths the verifiers expect
SAPLING_PROOF_LEN == 192
ORCHARD_PROOF_LEN == 1024
EQUIVALENCE_PROOF_LEN == 192
\* the length of a nullifier in bytes
NULLIFIER_LEN == 32

Positions == 0..MaxPos
Values    == 1..MaxValue
Times     == 0..MaxTime
\* 32-byte arrays that hold a position or a value (see the header)
Nullifiers       == Positions
ValueCommitments == 0..MaxValue
ProofLens        == {0, SAPLING_PROOF_LEN, ORCHARD_PROOF_LEN}

\* Option<T>: None is <<>>, Some(x) is <<x>>
\* no nullifier derivation was called yet
NoCalls == [prev |-> [present |-> FALSE], last |-> [present |-> FALSE]]

None    == <<>>
Some(x) == <<x>>

----------------------------------------------------------------------------
(* Notes: lib.rs SaplingNote, OrchardNote *)

SaplingNotes ==
    [diversifier : {0}, value : Values, note_commitment : {1},
     nullifier_key : {2}, randomness : {3}, position : Positions]

OrchardNotes ==
    [diversifier : {0}, value : Values, note_commitment : {1},
     nullifier_key : {2}, randomness : {3}, position : Positions,
     rho : {4}, psi : {5}]

\* SaplingNote::value_commitment / OrchardNote::value_commitment:
\* commitment[..8] = value.to_le_bytes()
value_commitment(note) == note.value

\* SaplingNote::nullifier / OrchardNote::nullifier:
\* nullifier[..8] = position.to_le_bytes()
nullifier(note) == note.position

\* BLAKE2s-256 of a byte string, given as the sequence of the 32-byte fields
\* fed to the hasher, each field the number it holds (below 7), with the
\* personalisation (1 for "MASP_alt", 0 for none) in front.  The hash is
\* idealised: different inputs give different digests, and no digest is one
\* of the 32-byte arrays with 24 trailing zero bytes that encode a position.
RECURSIVE Encode(_)
Encode(data) ==
    IF data = <<>> THEN 0
    ELSE (data[1] + 1) + 8 * Encode(Tail(data))

Blake2s(personal, data) == MaxPos + 1 + Encode(<<personal>> \o data)

\* mutant: the digest also depends on the number of notes the wallet holds
derive_sapling_airdrop_nullifier_Stateful(nullifier_key, rho) ==
    Blake2s(1, <<nullifier_key, rho, Len(sapling_notes) + Len(orchard_notes)>>)

\* AirdropNullifierDerivation::derive_sapling_airdrop_nullifier: always Ok
derive_sapling_airdrop_nullifier(nullifier_key, rho) ==
    Blake2s(1, <<nullifier_key, rho>>)

\* AirdropNullifierDerivation::derive_orchard_airdrop_nullifier: always Ok
derive_orchard_airdrop_nullifier(nullifier_key, rho, psi, note_commitment) ==
    Blake2s(0, <<nullifier_key, rho, psi, note_commitment>>)

\* every order in which the elements of a HashSet can be iterated
RECURSIVE Orderings(_)
Orderings(S) ==
    IF S = {} THEN {<<>>}
    ELSE UNION {{<<x>> \o s : s \in Orderings(S \ {x})} : x \in S}

Range(s) == {s[i] : i \in DOMAIN s}

----------------------------------------------------------------------------
(* Statements and transactions *)

NoEquiv == [present |-> FALSE]

NoTx == [present |-> FALSE]

MintDescription(recipient) ==
    [masp_root |-> 0, value_commitment |-> 0, recipient |-> recipient,
     proof |-> SAPLING_PROOF_LEN]

\* mutant: the claim is built without the nullifiers of the set it was given
create_sapling_to_masp_airdrop_NoSnapshot(note, nullifier_list, recipient) ==
    [present |-> TRUE,
     claim |-> [pool |-> "sapling", root |-> 0,
                value_commitment |-> value_commitment(note),
                airdrop_nullifier |-> nullifier(note),
                randomized_key |-> 0,
                nullifier_set |-> <<>>,
                proof |-> 192],
     mint |-> MintDescription(recipient),
     equiv |-> [present |-> TRUE,
                sapling_value_commitment |-> value_commitment(note),
                orchard_value_commitment |-> 0,
                proof |-> 192],
     binding_signature |-> 0]

\* ShieldedAirdropTransaction::create_sapling_to_masp_airdrop; nullifier_list
\* is nullifier_set.nullifiers.iter().cloned().collect()
create_sapling_to_masp_airdrop(note, nullifier_list, recipient) ==
    [present |-> TRUE,
     claim |-> [pool |-> "sapling", root |-> 0,
                value_commitment |-> value_commitment(note),
                airdrop_nullifier |-> nullifier(note),
                randomized_key |-> 0,
                nullifier_set |-> nullifier_list,
                proof |-> 192],
     mint |-> MintDescription(recipient),
     equiv |-> [present |-> TRUE,
                sapling_value_commitment |-> value_commitment(note),
                orchard_value_commitment |-> 0,
                proof |-> 192],
     binding_signature |-> 0]

\* ShieldedAirdropTransaction::create_orchard_to_masp_airdrop
create_orchard_to_masp_airdrop(note, nullifier_list, recipient) ==
    [present |-> TRUE,
     claim |-> [pool |-> "orchard", root |-> 0,
                value_commitment |-> value_commitment(note),
                airdrop_nullifier |-> nullifier(note),
                randomized_key |-> 0,
                nullifier_set |-> nullifier_list,
                proof |-> 192],
     mint |-> MintDescription(recipient),
     equiv |-> [present |-> TRUE,
                sapling_value_commitment |-> 0,
                orchard_value_commitment |-> value_commitment(note),
                proof |-> 192],
     binding_signature |-> 0]

\* CircuitProver::verify_claim_sapling
verify_claim_sapling(claim) == claim.proof = SAPLING_PROOF_LEN

\* CircuitProver::verify_claim_orchard
verify_claim_orchard(claim) == claim.proof = ORCHARD_PROOF_LEN

\* CircuitProver::verify_equivalence
verify_equivalence(equiv) == equiv.proof = EQUIVALENCE_PROOF_LEN

\* mutant: the registry is consulted before the claim proof is verified
ValidateOutcome_NullifierFirst(t, set) ==
    IF t.claim.airdrop_nullifier \in set THEN "nullifier_used"
    ELSE IF t.claim.pool = "sapling"
    THEN IF ~verify_claim_sapling(t.claim) THEN "claim_proof_invalid"
         ELSE "accepted"
    ELSE IF ~verify_claim_orchard(t.claim) THEN "claim_proof_invalid"
         ELSE IF t.equiv.present /\ ~verify_equivalence(t.equiv)
              THEN "equivalence_proof_invalid"
         ELSE IF t.equiv.present
                 /\ t.equiv.sapling_value_commitment # t.claim.value_commitment
              THEN "commitment_mismatch"
         ELSE "accepted"

\* ShieldedAirdropTransaction::validate, with the return statement it leaves by:
\* "accepted" is Ok(true), every other value is the Ok(false) of that check
ValidateOutcome(t, set) ==
    IF t.claim.pool = "sapling"
    THEN IF ~verify_claim_sapling(t.claim) THEN "claim_proof_invalid"
         ELSE IF t.claim.airdrop_nullifier \in set THEN "nullifier_used"
         ELSE "accepted"
    ELSE IF ~verify_claim_orchard(t.claim) THEN "claim_proof_invalid"
         ELSE IF t.claim.airdrop_nullifier \in set THEN "nullifier_used"
         ELSE IF t.equiv.present /\ ~verify_equivalence(t.equiv)
              THEN "equivalence_proof_invalid"
         ELSE IF t.equiv.present
                 /\ t.equiv.sapling_value_commitment # t.claim.value_commitment
              THEN "commitment_mismatch"
         ELSE "accepted"

validate(t, set) == ValidateOutcome(t, set) = "accepted"

\* mutant: the Orchard arm of the accessor returns the claim's root
get_airdrop_nullifier_OrchardRoot(t) ==
    IF t.claim.pool = "sapling" THEN t.claim.airdrop_nullifier
    ELSE t.claim.root

\* mutant: the accessor returns another 32-byte field of the claim
get_airdrop_nullifier_WrongField(t) == t.claim.value_commitment

\* ShieldedAirdropTransaction::get_airdrop_nullifier
get_airdrop_nullifier(t) == t.claim.airdrop_nullifier


----------------------------------------------------------------------------
(* The in-memory wallet of lib.rs (AirdropWallet) *)

Ret(op, ret) == [op |-> op, ret |-> ret]

\* the recipient address the caller passes (the test's [4u8; 32])
Addresses == {[i \in 1..32 |-> 4]}

\* the airdrop amount the caller passes; the builders ignore it
Amounts == {1}

\* recipient_address -> PublicKey: the first 32 bytes, zero-padded
masp_recipient(addr) ==
    [i \in 1..32 |-> IF i <= Len(addr) THEN addr[i] ELSE 0]

\* lib.rs AirdropWallet::new
CoreNew ==
    /\ sapling_notes = <<>>
    /\ orchard_notes = <<>>
    /\ nullifier_set = {}
    /\ airdrop_nullifier_set = {}

\* lib.rs AirdropWallet::add_sapling_note
CoreAddSaplingNote ==
    /\ Len(sapling_notes) + Len(orchard_notes) < MaxNotes
    /\ \E note \in SaplingNotes :
         sapling_notes' = Append(sapling_notes, note)
    /\ result' = Ret("core_add_sapling_note", "unit")
    /\ UNCHANGED <<orchard_notes, nullifier_set, airdrop_nullifier_set,
                   db_vars, tx, hist_vars>>

\* lib.rs AirdropWallet::add_orchard_note
CoreAddOrchardNote ==
    /\ Len(sapling_notes) + Len(orchard_notes) < MaxNotes
    /\ \E note \in OrchardNotes :
         orchard_notes' = Append(orchard_notes, note)
    /\ result' = Ret("core_add_orchard_note", "unit")
    /\ UNCHANGED <<sapling_notes, nullifier_set, airdrop_nullifier_set,
                   db_vars, tx, hist_vars>>

\* mutant: an index past the end is taken for the last note
core_create_sapling_airdrop_tx_Clamped(note_index, amount, addr, nullifier_list) ==
    IF Len(sapling_notes) = 0 THEN NoTx
    ELSE create_sapling_to_masp_airdrop(
             sapling_notes[IF note_index >= Len(sapling_notes)
                           THEN Len(sapling_notes) ELSE note_index + 1],
             nullifier_list, masp_recipient(addr))

\* lib.rs AirdropWallet::create_sapling_airdrop_tx, as a value:
\* the transaction, or NoTx for Err("Invalid note index")
core_create_sapling_airdrop_tx(note_index, amount, addr, nullifier_list) ==
    IF note_index >= Len(sapling_notes) THEN NoTx
    ELSE create_sapling_to_masp_airdrop(sapling_notes[note_index + 1],
                                        nullifier_list, masp_recipient(addr))

\* lib.rs AirdropWallet::create_orchard_airdrop_tx, as a value
core_create_orchard_airdrop_tx(note_index, amount, addr, nullifier_list) ==
    IF note_index >= Len(orchard_notes) THEN NoTx
    ELSE create_orchard_to_masp_airdrop(orchard_notes[note_index + 1],
                                        nullifier_list, masp_recipient(addr))

\* what the caller holds after a create_*(note_index, ..) call that returned
\* Ok(t), or failed with the given error when t is NoTx
Returned(op, note_index, t, error) ==
    /\ IF t.present THEN tx' = t ELSE UNCHANGED tx
    /\ result' = [op |-> op, note_index |-> note_index,
                  ret |-> IF t.present THEN "ok" ELSE error]

\* a call of create_sapling_airdrop_tx (lib.rs, and its wrapper in wallet.rs,
\* which only maps the error)
CreateSaplingAirdropTx ==
    /\ \E note_index \in 0..MaxNotes, amount \in Amounts, addr \in Addresses,
          nullifier_list \in Orderings(nullifier_set) :
         Returned("create_sapling_airdrop_tx", note_index,
                  core_create_sapling_airdrop_tx(note_index, amount, addr,
                                                 nullifier_list),
                  "invalid_note_index")
    /\ UNCHANGED <<core_vars, db_vars, hist_vars>>

\* a call of create_orchard_airdrop_tx
CreateOrchardAirdropTx ==
    /\ \E note_index \in 0..MaxNotes, amount \in Amounts, addr \in Addresses,
          nullifier_list \in Orderings(nullifier_set) :
         Returned("create_orchard_airdrop_tx", note_index,
                  core_create_orchard_airdrop_tx(note_index, amount, addr,
                                                 nullifier_list),
                  "invalid_note_index")
    /\ UNCHANGED <<core_vars, db_vars, hist_vars>>

\* wallet.rs create_sapling_to_masp_airdrop_tx: the same build with the
\* recipient key given by the caller
CreateSaplingToMaspAirdropTx ==
    /\ \E note_index \in 0..MaxNotes, amount \in Amounts, addr \in Addresses,
          nullifier_list \in Orderings(nullifier_set) :
         Returned("create_sapling_to_masp_airdrop_tx", note_index,
                  IF note_index >= Len(sapling_notes) THEN NoTx
                  ELSE create_sapling_to_masp_airdrop(
                           sapling_notes[note_index + 1], nullifier_list,
                           masp_recipient(addr)),
                  "invalid_note_index")
    /\ UNCHANGED <<core_vars, db_vars, hist_vars>>

\* wallet.rs create_orchard_to_masp_airdrop_tx
CreateOrchardToMaspAirdropTx ==
    /\ \E note_index \in 0..MaxNotes, amount \in Amounts, addr \in Addresses,
          nullifier_list \in Orderings(nullifier_set) :
         Returned("create_orchard_to_masp_airdrop_tx", note_index,
                  IF note_index >= Len(orchard_notes) THEN NoTx
                  ELSE create_orchard_to_masp_airdrop(
                           orchard_notes[note_index + 1], nullifier_list,
                           masp_recipient(addr)),
                  "invalid_note_index")
    /\ UNCHANGED <<core_vars, db_vars, hist_vars>>

\* mutant: the accepted nullifier is not recorded
InsertAccepted_Skip(set, t) == set

\* the registry after process_airdrop_transaction accepted t
InsertAccepted(set, t) == set \cup {get_airdrop_nullifier(t)}

\* mutant: the nullifier is recorded before the transaction is validated
ProcessAirdropTransaction_InsertFirst ==
    /\ tx.present
    /\ airdrop_nullifier_set' = InsertAccepted(airdrop_nullifier_set, tx)
    /\ IF ~validate(tx, airdrop_nullifier_set)
       THEN /\ result' = Ret("process_airdrop_transaction", "false")
            /\ UNCHANGED accepted
       ELSE /\ result' = Ret("process_airdrop_transaction", "true")
            /\ accepted' \in {accepted, tx}
    /\ submitted' = submitted \cup {tx.claim.pool}
    /\ UNCHANGED <<sapling_notes, orchard_notes, nullifier_set, db_vars,
                   tx, derived>>

\* mutant: the transaction is validated against both registries
ProcessAirdropTransaction_BothRegistries ==
    /\ tx.present
    /\ IF ~validate(tx, airdrop_nullifier_set \cup nullifier_set)
       THEN /\ result' = Ret("process_airdrop_transaction", "false")
            /\ UNCHANGED <<airdrop_nullifier_set, accepted>>
       ELSE /\ airdrop_nullifier_set' = InsertAccepted(airdrop_nullifier_set, tx)
            /\ result' = Ret("process_airdrop_transaction", "true")
            /\ accepted' \in {accepted, tx}
    /\ submitted' = submitted \cup {tx.claim.pool}
    /\ UNCHANGED <<sapling_notes, orchard_notes, nullifier_set, db_vars,
                   tx, derived>>

\* lib.rs AirdropWallet::process_airdrop_transaction on the transaction the
\* caller holds
ProcessAirdropTransaction ==
    /\ tx.present
    /\ IF ~validate(tx, airdrop_nullifier_set)
       THEN /\ result' = Ret("process_airdrop_transaction", "false")
            /\ UNCHANGED <<airdrop_nullifier_set, accepted>>
       ELSE /\ airdrop_nullifier_set' = InsertAccepted(airdrop_nullifier_set, tx)
            /\ result' = Ret("process_airdrop_transaction", "true")
            /\ accepted' \in {accepted, tx}
    /\ submitted' = submitted \cup {tx.claim.pool}
    /\ UNCHANGED derived
    /\ UNCHANGED <<sapling_notes, orchard_notes, nullifier_set, db_vars,
                   tx>>

----------------------------------------------------------------------------
(* validate as a pure function: every transaction against every registry *)

EquivSpace ==
    {NoEquiv} \cup
    [present : {TRUE}, sapling_value_commitment : ValueCommitments,
     orchard_value_commitment : ValueCommitments,
     proof : {0, EQUIVALENCE_PROOF_LEN}]

TxSpace ==
    [present : {TRUE},
     claim : [pool : {"sapling", "orchard"}, root : {0},
              value_commitment : ValueCommitments,
              airdrop_nullifier : Nullifiers, randomized_key : {0},
              nullifier_set : {<<>>}, proof : ProofLens],
     mint : {MintDescription(masp_recipient(addr)) : addr \in Addresses},
     equiv : EquivSpace,
     binding_signature : {0}]

NoDatabase ==
    /\ metadata = [name |-> "", created_at |-> 0, last_sync |-> 0,
                   network |-> "", version |-> ""]
    /\ db_metadata = None
    /\ db_sapling_notes = <<>>
    /\ db_orchard_notes = <<>>
    /\ db_nullifier_set = {}
    /\ db_airdrop_nullifier_set = {}
    /\ db_transactions = <<>>

InitValidate ==
    /\ sapling_notes = <<>>
    /\ orchard_notes = <<>>
    /\ nullifier_set = {}
    /\ airdrop_nullifier_set \in SUBSET Nullifiers
    /\ NoDatabase
    /\ tx \in TxSpace
    /\ result = Ret("init", "unit")
    /\ accepted = NoTx
    /\ submitted = {}
    /\ derived = NoCalls

\* a call of tx.validate(&airdrop_nullifier_set)
Validate ==
    /\ tx.present
    /\ result' = Ret("validate", ValidateOutcome(tx, airdrop_nullifier_set))
    /\ UNCHANGED <<core_vars, db_vars, tx, hist_vars>>

NextValidate == Validate \/ ProcessAirdropTransaction

SpecValidate == InitValidate /\ [][NextValidate]_vars

----------------------------------------------------------------------------
(* The in-memory wallet alone *)

InitCore ==
    /\ CoreNew
    /\ NoDatabase
    /\ tx = NoTx
    /\ result = Ret("init", "unit")
    /\ accepted = NoTx
    /\ submitted = {}
    /\ derived = NoCalls

NextCore ==
    \/ CoreAddSaplingNote
    \/ CoreAddOrchardNote
    \/ CreateSaplingAirdropTx
    \/ CreateOrchardAirdropTx
    \/ ProcessAirdropTransaction

SpecCore == InitCore /\ [][NextCore]_vars


----------------------------------------------------------------------------
(* The persistent wallet of wallet.rs: the sled database *)

\* WalletMetadata written by AirdropWallet::new(path, name, network) at time t
NewMetadata(name, network, t) ==
    [name |-> name, created_at |-> t, last_sync |-> 0, network |-> network,
     version |-> "0.1.0"]

\* the decimal digits of n, as format!("{}", n) writes them
RECURSIVE Digits(_)
Digits(n) == IF n < 10 THEN <<n>> ELSE Digits(n \div 10) \o <<n % 10>>

\* byte order of two strings given as sequences of digits
LexLess(a, b) ==
    \E k \in 1..(Len(b)) :
        /\ \A j \in 1..(k - 1) : j <= Len(a) /\ a[j] = b[j]
        /\ \/ k = Len(a) + 1
           \/ k <= Len(a) /\ a[k] < b[k]

\* sled iterates a tree in the byte order of its keys "<type>_<position>"
KeyLess(p, q) == LexLess(Digits(p), Digits(q))

\* the positions of a tree's records, in the order tree.iter() yields them
RECURSIVE KeyOrder(_)
KeyOrder(S) ==
    IF S = {} THEN <<>>
    ELSE LET first == CHOOSE p \in S : \A q \in S \ {p} : KeyLess(p, q)
         IN  <<first>> \o KeyOrder(S \ {first})

\* SaplingNoteRecord / OrchardNoteRecord as add_*_note creates it
NewNoteRecord(note, t) ==
    [note |-> note, created_at |-> t, is_spent |-> FALSE, last_used |-> None]

\* tree.insert(note_id, record): note_id is "<type>_<position>"
TreeInsert(tree, record) == (record.note.position :> record) @@ tree

\* the tree after add_*_note of notes[k..], the k-th at time ts[k]
RECURSIVE TreeInsertAll(_, _, _, _)
TreeInsertAll(tree, notes, ts, k) ==
    IF k > Len(notes) THEN tree
    ELSE TreeInsertAll(TreeInsert(tree, NewNoteRecord(notes[k], ts[k])),
                       notes, ts, k + 1)

\* mutant: the notes of spent records are not loaded
LoadedNotes_UnspentOnly(tree) ==
    LET order == KeyOrder({p \in DOMAIN tree : ~tree[p].is_spent})
    IN  [i \in 1..Len(order) |-> tree[order[i]].note]

\* the notes load_notes pushes, in the order the tree yields the records
LoadedNotes(tree) ==
    LET order == KeyOrder(DOMAIN tree)
    IN  [i \in 1..Len(order) |-> tree[order[i]].note]

\* the nullifiers load_notes inserts: the keys of the tree that are 32 bytes long
LoadedNullifiers(keys) == {k.id : k \in {e \in keys : e.len = NULLIFIER_LEN}}

\* note_record.is_spent = true; note_record.last_used = Some(now)
SpentRecord(record, t) ==
    [record EXCEPT !.is_spent = TRUE, !.last_used = Some(t)]

\* mutant: a call that finds no record reports success
mark_note_as_spent_Lenient(note_type, position, t) ==
    IF note_type = "sapling" /\ position \in DOMAIN db_sapling_notes
    THEN [ok |-> TRUE,
          sapling |-> [db_sapling_notes EXCEPT
                         ![position] = SpentRecord(@, t)],
          orchard |-> db_orchard_notes]
    ELSE IF note_type = "orchard" /\ position \in DOMAIN db_orchard_notes
    THEN [ok |-> TRUE,
          sapling |-> db_sapling_notes,
          orchard |-> [db_orchard_notes EXCEPT
                         ![position] = SpentRecord(@, t)]]
    ELSE [ok |-> TRUE, sapling |-> db_sapling_notes,
          orchard |-> db_orchard_notes]

\* mark_note_as_spent as a value: the trees after the call, and whether it
\* returned Ok.  A note type other than "sapling" and "orchard" opens a tree
\* "<type>_notes" that holds no record.
mark_note_as_spent(note_type, position, t) ==
    IF note_type = "sapling" /\ position \in DOMAIN db_sapling_notes
    THEN [ok |-> TRUE,
          sapling |-> [db_sapling_notes EXCEPT
                         ![position] = SpentRecord(@, t)],
          orchard |-> db_orchard_notes]
    ELSE IF note_type = "orchard" /\ position \in DOMAIN db_orchard_notes
    THEN [ok |-> TRUE,
          sapling |-> db_sapling_notes,
          orchard |-> [db_orchard_notes EXCEPT
                         ![position] = SpentRecord(@, t)]]
    ELSE [ok |-> FALSE, sapling |-> db_sapling_notes,
          orchard |-> db_orchard_notes]

\* get_balance: the sum of the values of the unspent records of a tree
RECURSIVE UnspentSum(_, _)
UnspentSum(tree, S) ==
    IF S = {} THEN 0
    ELSE LET p == CHOOSE q \in S : TRUE
         IN  (IF tree[p].is_spent THEN 0 ELSE tree[p].note.value)
             + UnspentSum(tree, S \ {p})

get_balance ==
    <<UnspentSum(db_sapling_notes, DOMAIN db_sapling_notes),
      UnspentSum(db_orchard_notes, DOMAIN db_orchard_notes)>>

WalletNames == {"wallet"}
Networks    == {"testnet"}

\* AirdropWallet::new on a fresh path, with init_database
Init ==
    /\ CoreNew
    /\ \E name \in WalletNames, network \in Networks, t \in Times :
         /\ metadata = NewMetadata(name, network, t)
         /\ db_metadata = Some(metadata)
    /\ db_sapling_notes = <<>>
    /\ db_orchard_notes = <<>>
    /\ db_nullifier_set = {}
    /\ db_airdrop_nullifier_set = {}
    /\ db_transactions = <<>>
    /\ tx = NoTx
    /\ result = Ret("new", "ok")
    /\ accepted = NoTx
    /\ submitted = {}
    /\ derived = NoCalls

\* the wallet is dropped and opened again: AirdropWallet::load with load_notes
Load ==
    /\ db_metadata # None
    /\ metadata' = db_metadata[1]
    /\ sapling_notes' = LoadedNotes(db_sapling_notes)
    /\ orchard_notes' = LoadedNotes(db_orchard_notes)
    /\ nullifier_set' = LoadedNullifiers(db_nullifier_set)
    /\ airdrop_nullifier_set' = LoadedNullifiers(db_airdrop_nullifier_set)
    /\ result' = Ret("load", "ok")
    /\ UNCHANGED <<db_metadata, db_sapling_notes, db_orchard_notes,
                   db_nullifier_set, db_airdrop_nullifier_set,
                   db_transactions, tx, hist_vars>>

\* wallet.rs AirdropWallet::add_sapling_note
AddSaplingNoteFrom(notes) ==
    /\ Len(sapling_notes) + Len(orchard_notes) < MaxNotes
    /\ \E note \in notes, t \in Times :
         /\ db_sapling_notes' =
                TreeInsert(db_sapling_notes, NewNoteRecord(note, t))
         /\ sapling_notes' = Append(sapling_notes, note)
    /\ result' = Ret("add_sapling_note", "ok")
    /\ UNCHANGED <<orchard_notes, nullifier_set, airdrop_nullifier_set,
                   metadata, db_metadata, db_orchard_notes, db_nullifier_set,
                   db_airdrop_nullifier_set, db_transactions, tx, hist_vars>>

AddSaplingNote == AddSaplingNoteFrom(SaplingNotes)

\* wallet.rs AirdropWallet::add_orchard_note
AddOrchardNoteFrom(notes) ==
    /\ Len(sapling_notes) + Len(orchard_notes) < MaxNotes
    /\ \E note \in notes, t \in Times :
         /\ db_orchard_notes' =
                TreeInsert(db_orchard_notes, NewNoteRecord(note, t))
         /\ orchard_notes' = Append(orchard_notes, note)
    /\ result' = Ret("add_orchard_note", "ok")
    /\ UNCHANGED <<sapling_notes, nullifier_set, airdrop_nullifier_set,
                   metadata, db_metadata, db_sapling_notes, db_nullifier_set,
                   db_airdrop_nullifier_set, db_transactions, tx, hist_vars>>

AddOrchardNote == AddOrchardNoteFrom(OrchardNotes)

NoteTypes == {"sapling", "orchard", "other"}

\* a call of mark_note_as_spent(note_type, position)
MarkNoteAsSpent ==
    /\ \E note_type \in NoteTypes, position \in Positions, t \in Times :
         LET r == mark_note_as_spent(note_type, position, t)
         IN  /\ db_sapling_notes' = r.sapling
             /\ db_orchard_notes' = r.orchard
             /\ result' = [op |-> "mark_note_as_spent",
                           note_type |-> note_type, position |-> position,
                           ret |-> IF r.ok THEN "ok" ELSE "err"]
    /\ UNCHANGED <<core_vars, metadata, db_metadata, db_nullifier_set,
                   db_airdrop_nullifier_set, db_transactions, tx, hist_vars>>

\* what mark_note_as_spent_by_index(note_type, note_index) returned
ByIndexRet(note_type, note_index, ret) ==
    [op |-> "mark_note_as_spent_by_index", note_type |-> note_type,
     note_index |-> note_index, ret |-> ret]

\* a call of mark_note_as_spent_by_index(note_type, note_index)
MarkNoteAsSpentByIndex ==
    /\ \E note_type \in NoteTypes, note_index \in 0..MaxNotes, t \in Times :
         LET notes == IF note_type = "sapling" THEN sapling_notes
                      ELSE orchard_notes
             r == mark_note_as_spent(note_type,
                                     notes[note_index + 1].position, t)
         IN  IF note_type \notin {"sapling", "orchard"}
             THEN /\ result' = ByIndexRet(note_type, note_index, "err")
                  /\ UNCHANGED <<db_sapling_notes, db_orchard_notes>>
             ELSE IF note_index >= Len(notes)
             THEN /\ result' = ByIndexRet(note_type, note_index, "ok")
                  /\ UNCHANGED <<db_sapling_notes, db_orchard_notes>>
             ELSE /\ db_sapling_notes' = r.sapling
                  /\ db_orchard_notes' = r.orchard
                  /\ result' = ByIndexRet(note_type, note_index,
                                          IF r.ok THEN "ok" ELSE "err")
    /\ UNCHANGED <<core_vars, metadata, db_metadata, db_nullifier_set,
                   db_airdrop_nullifier_set, db_transactions, tx, hist_vars>>

\* wallet.rs AirdropWallet::create_sapling_airdrop_tx_mut
CreateSaplingAirdropTxMut ==
    /\ \E note_index \in 0..MaxNotes, amount \in Amounts, addr \in Addresses,
          nullifier_list \in Orderings(nullifier_set), t \in Times :
         LET t_built == core_create_sapling_airdrop_tx(note_index, amount, addr,
                                                       nullifier_list)
             r == mark_note_as_spent("sapling",
                                     sapling_notes[note_index + 1].position, t)
         IN  IF ~t_built.present
             THEN /\ Returned("create_sapling_airdrop_tx_mut", note_index, NoTx,
                              "invalid_note_index")
                  /\ UNCHANGED <<db_sapling_notes, db_orchard_notes>>
             ELSE /\ db_sapling_notes' = r.sapling
                  /\ db_orchard_notes' = r.orchard
                  /\ Returned("create_sapling_airdrop_tx_mut", note_index,
                              IF r.ok THEN t_built ELSE NoTx,
                              "note_not_found")
    /\ UNCHANGED <<core_vars, metadata, db_metadata, db_nullifier_set,
                   db_airdrop_nullifier_set, db_transactions, hist_vars>>

\* wallet.rs AirdropWallet::create_orchard_airdrop_tx_mut
CreateOrchardAirdropTxMut ==
    /\ \E note_index \in 0..MaxNotes, amount \in Amounts, addr \in Addresses,
          nullifier_list \in Orderings(nullifier_set), t \in Times :
         LET t_built == core_create_orchard_airdrop_tx(note_index, amount, addr,
                                                       nullifier_list)
             r == mark_note_as_spent("orchard",
                                     orchard_notes[note_index + 1].position, t)
         IN  IF ~t_built.present
             THEN /\ Returned("create_orchard_airdrop_tx_mut", note_index, NoTx,
                              "invalid_note_index")
                  /\ UNCHANGED <<db_sapling_notes, db_orchard_notes>>
             ELSE /\ db_sapling_notes' = r.sapling
                  /\ db_orchard_notes' = r.orchard
                  /\ Returned("create_orchard_airdrop_tx_mut", note_index,
                              IF r.ok THEN t_built ELSE NoTx,
                              "note_not_found")
    /\ UNCHANGED <<core_vars, metadata, db_metadata, db_nullifier_set,
                   db_airdrop_nullifier_set, db_transactions, hist_vars>>


----------------------------------------------------------------------------
(* export_data / import_data *)

\* a blob from elsewhere holds at most MaxBlobLen notes and at most MaxBlobLen
\* nullifier entries
MaxBlobLen == 1

SeqsUpTo(S, n) == UNION {[1..k -> S] : k \in 0..n}

\* Vec<u8> entries of ExportData.nullifier_set: the length of the vector and
\* the number its bytes hold
Entry(n) == [len |-> NULLIFIER_LEN, id |-> n]

ShortEntry == [len |-> NULLIFIER_LEN - 1, id |-> 0]

Entries == {Entry(n) : n \in Nullifiers} \cup {ShortEntry}

EntryList(list) == [i \in 1..Len(list) |-> Entry(list[i])]

\* bytes bincode::deserialize::<ExportData> rejects
Garbage == [parses |-> FALSE]

\* export_data: the blobs it can return (a HashSet iterates in any order)
ExportBlobs ==
    {[parses |-> TRUE,
      metadata |-> metadata,
      sapling_notes |-> sapling_notes,
      orchard_notes |-> orchard_notes,
      nullifier_set |-> EntryList(l),
      airdrop_nullifier_set |-> EntryList(a)] :
        l \in Orderings(nullifier_set),
        a \in Orderings(airdrop_nullifier_set)}

\* the metadata of another wallet
OtherMetadata == NewMetadata("other", "mainnet", 0)

\* blobs that deserialize as ExportData and come from elsewhere
ForeignBlobs ==
    {b \in [parses : {TRUE},
            metadata : {OtherMetadata},
            sapling_notes : SeqsUpTo(SaplingNotes, MaxBlobLen),
            orchard_notes : SeqsUpTo(OrchardNotes, MaxBlobLen),
            nullifier_set : SeqsUpTo(Entries, MaxBlobLen),
            airdrop_nullifier_set : SeqsUpTo(Entries, MaxBlobLen)] :
        /\ Len(b.sapling_notes) + Len(b.orchard_notes) <= MaxBlobLen
        /\ Len(b.nullifier_set) + Len(b.airdrop_nullifier_set) <= MaxBlobLen}

ImportBlobs == {Garbage} \cup ExportBlobs \cup ForeignBlobs

\* for nullifier in list { set.insert(nullifier.try_into().unwrap()) }:
\* the nullifiers inserted, and whether the loop ended without a panic
InsertEntries(list) ==
    LET bad == {i \in 1..Len(list) : list[i].len # NULLIFIER_LEN}
        stop == IF bad = {} THEN Len(list) + 1
                ELSE CHOOSE i \in bad : \A j \in bad : i <= j
    IN  [ok |-> bad = {}, set |-> {list[i].id : i \in 1..(stop - 1)}]

\* wallet.rs AirdropWallet::import_data(blob); ts[k] is the time the k-th
\* add_*_note call reads
ImportData ==
    \E blob \in ImportBlobs :
      IF ~blob.parses
      THEN /\ result' = [op |-> "import_data", ret |-> "err", blob |-> blob,
                         exported |-> FALSE]
           /\ UNCHANGED <<core_vars, db_vars, tx, hist_vars>>
      ELSE
        \E ts \in [1..(Len(blob.sapling_notes) + Len(blob.orchard_notes))
                   -> Times] :
          LET ns == Len(blob.sapling_notes)
              spends == InsertEntries(blob.nullifier_set)
              claims == InsertEntries(blob.airdrop_nullifier_set)
          IN  /\ sapling_notes' = blob.sapling_notes
              /\ orchard_notes' = blob.orchard_notes
              /\ db_sapling_notes' =
                     TreeInsertAll(db_sapling_notes, blob.sapling_notes, ts, 1)
              /\ db_orchard_notes' =
                     TreeInsertAll(db_orchard_notes, blob.orchard_notes,
                                   [k \in 1..Len(blob.orchard_notes) |->
                                       ts[ns + k]], 1)
              /\ nullifier_set' = spends.set
              /\ airdrop_nullifier_set' =
                     IF spends.ok THEN claims.set ELSE {}
              /\ result' = [op |-> "import_data",
                            ret |-> IF spends.ok /\ claims.ok THEN "ok"
                                    ELSE "panic",
                            blob |-> blob,
                            exported |-> blob \in ExportBlobs]
              /\ UNCHANGED <<metadata, db_metadata, db_nullifier_set,
                             db_airdrop_nullifier_set, db_transactions,
                             tx, hist_vars>>

----------------------------------------------------------------------------
(* The persistent wallet with the in-memory wallet it wraps: the claim      *)
(* lifecycle (notes are added, transactions built and processed, notes      *)
(* marked spent, the wallet closed and opened again)                        *)

Next ==
    \/ Load
    \/ AddSaplingNote
    \/ AddOrchardNote
    \/ MarkNoteAsSpent
    \/ MarkNoteAsSpentByIndex
    \/ CreateSaplingAirdropTx
    \/ CreateOrchardAirdropTx
    \/ CreateSaplingAirdropTxMut
    \/ CreateOrchardAirdropTxMut
    \/ CreateSaplingToMaspAirdropTx
    \/ CreateOrchardToMaspAirdropTx
    \/ ProcessAirdropTransaction

Spec == Init /\ [][Next]_vars

----------------------------------------------------------------------------
(* The persistent wallet: the note store with export and import *)

NextImport ==
    \/ Load
    \/ AddSaplingNote
    \/ AddOrchardNote
    \/ MarkNoteAsSpent
    \/ MarkNoteAsSpentByIndex
    \/ ImportData

SpecImport == Init /\ [][NextImport]_vars

----------------------------------------------------------------------------
(* Claims about validate (SpecValidate) *)

\* the equivalence statement's value commitment for the claim's own pool
OwnPoolCommitment(t) ==
    IF t.claim.pool = "sapling" THEN t.equiv.sapling_value_commitment
    ELSE t.equiv.orchard_value_commitment

\* C6: a transaction of either claim variant that carries an equivalence
\* statement whose proof does not verify is rejected by validate.
C6_EquivalenceProofChecked ==
    (/\ result.op = "validate"
     /\ tx.equiv.present
     /\ ~verify_equivalence(tx.equiv))
    => result.ret # "accepted"

\* C7: validate accepts a transaction that carries an equivalence statement
\* only if the statement's value commitment for the claim's own pool equals
\* the claim's value commitment.
C7_OwnPoolCommitmentMatches ==
    (/\ result.op = "validate"
     /\ tx.equiv.present
     /\ result.ret = "accepted")
    => OwnPoolCommitment(tx) = tx.claim.value_commitment

----------------------------------------------------------------------------
(* Claims about the in-memory wallet (SpecCore) *)

\* C1: on a wallet holding one Sapling note, the first transaction built for
\* that note and passed to process_airdrop_transaction is accepted, and every
\* later one is rejected.
C1_SaplingDoubleSpendRejected ==
    [][(/\ ProcessAirdropTransaction
        /\ Len(sapling_notes) = 1
        /\ tx.claim.pool = "sapling")
       => (result'.ret = "true" <=> "sapling" \notin submitted)]_vars

C1_Witness ==
    /\ Len(sapling_notes) = 1
    /\ tx.present
    /\ tx.claim.pool = "sapling"
    /\ "sapling" \in submitted
    /\ get_airdrop_nullifier(tx) \in airdrop_nullifier_set
    /\ result = Ret("process_airdrop_transaction", "false")

\* C2: once process_airdrop_transaction has accepted a transaction, validate
\* rejects that transaction in every later state of the wallet, and the
\* check that rejects it is the nullifier check.
C2_AcceptedIsRejectedAtNullifierCheck ==
    accepted.present
    => ValidateOutcome(accepted, airdrop_nullifier_set) = "nullifier_used"

C2_Witness ==
    /\ accepted.present
    /\ tx.present
    /\ tx # accepted
    /\ Cardinality(airdrop_nullifier_set) = 2
    /\ result = Ret("process_airdrop_transaction", "true")


----------------------------------------------------------------------------
(* Claims about the claim lifecycle of the persistent wallet (Spec) *)

\* C3: no two transactions accepted by the same wallet carry the same
\* airdrop nullifier: a transaction is not accepted when an earlier accepted
\* transaction carried its nullifier.
C3_AcceptedNullifiersDistinct ==
    [][(/\ ProcessAirdropTransaction
        /\ result'.ret = "true")
       => ~(/\ accepted.present
            /\ get_airdrop_nullifier(accepted) = get_airdrop_nullifier(tx))]_vars

\* the claim nullifier of a stored note is recorded iff the note is marked spent
ClaimedIffSpent(tree) ==
    \A p \in DOMAIN tree :
        (nullifier(tree[p].note) \in airdrop_nullifier_set) <=> tree[p].is_spent

\* C4: in every reachable wallet state a note's claim nullifier is in the
\* airdrop/claim registry if and only if the note is marked spent in the
\* note store.
C4_ClaimAcceptanceAtomic ==
    /\ ClaimedIffSpent(db_sapling_notes)
    /\ ClaimedIffSpent(db_orchard_notes)

\* C5: after a claim transaction was accepted and the wallet was closed and
\* opened again with load, the accepted nullifier is still in the
\* airdrop/claim registry and the transaction is still rejected.
C5_RegistryDurable ==
    (/\ result.op = "load"
     /\ accepted.present)
    => /\ get_airdrop_nullifier(accepted) \in airdrop_nullifier_set
       /\ ~validate(accepted, airdrop_nullifier_set)

----------------------------------------------------------------------------
(* Claims about export and import (SpecImport) *)

\* C8: import_data of a malformed blob (one that does not parse, or one with
\* a nullifier entry that is not 32 bytes long) fails and leaves the notes,
\* both nullifier sets, the persisted records and the metadata as they were.
C8_ImportAllOrNothing ==
    [][(/\ result'.op = "import_data"
        /\ result'.ret \in {"err", "panic"}
        /\ ImportData)
       => UNCHANGED <<core_vars, db_vars>>]_vars

\* C9: import_data(export_data()) leaves the wallet with the same notes per
\* pool (with each note record's spent flag and timestamps), the same two
\* nullifier sets and the same metadata.
C9_ExportImportRoundTrip ==
    [][(/\ result'.op = "import_data"
        /\ result'.exported
        /\ ImportData)
       => UNCHANGED <<core_vars, db_vars>>]_vars

StoredNotes(tree) == {tree[p].note : p \in DOMAIN tree}

EntryIds(list) == {list[i].id : i \in 1..Len(list)}

\* C10: after a successful import_data the in-memory wallet and the
\* persisted collections hold exactly the notes, nullifier sets and metadata
\* of the imported blob, and nothing from before the import.
C10_ImportReplacesWholesale ==
    (/\ result.op = "import_data"
     /\ result.ret = "ok")
    => /\ sapling_notes = result.blob.sapling_notes
       /\ orchard_notes = result.blob.orchard_notes
       /\ nullifier_set = EntryIds(result.blob.nullifier_set)
       /\ airdrop_nullifier_set = EntryIds(result.blob.airdrop_nullifier_set)
       /\ metadata = result.blob.metadata
       /\ StoredNotes(db_sapling_notes) = Range(result.blob.sapling_notes)
       /\ StoredNotes(db_orchard_notes) = Range(result.blob.orchard_notes)
       /\ db_nullifier_set = Range(result.blob.nullifier_set)
       /\ db_airdrop_nullifier_set = Range(result.blob.airdrop_nullifier_set)
       /\ db_metadata = Some(result.blob.metadata)

----------------------------------------------------------------------------
(* The note store alone: add_*_note, mark_note_as_spent and load, with      *)
(* notes of more than one value so that two different notes can share a     *)
(* position                                                                 *)

MaxBalanceValue == 2

BalanceSaplingNotes ==
    [diversifier : {0}, value : 1..MaxBalanceValue, note_commitment : {1},
     nullifier_key : {2}, randomness : {3}, position : Positions]

BalanceOrchardNotes ==
    [diversifier : {0}, value : 1..MaxBalanceValue, note_commitment : {1},
     nullifier_key : {2}, randomness : {3}, position : Positions,
     rho : {4}, psi : {5}]

AddSaplingNoteAnyValue == AddSaplingNoteFrom(BalanceSaplingNotes)

AddOrchardNoteAnyValue == AddOrchardNoteFrom(BalanceOrchardNotes)

NextBalance ==
    \/ Load
    \/ AddSaplingNoteAnyValue
    \/ AddOrchardNoteAnyValue
    \/ MarkNoteAsSpent
    \/ MarkNoteAsSpentByIndex

SpecBalance == Init /\ [][NextBalance]_vars

\* the value get_balance stops counting in a step: the records of the tree
\* that were unspent before the step and are spent after it
RECURSIVE NewlySpentSum(_, _, _)
NewlySpentSum(tree, tree2, S) ==
    IF S = {} THEN 0
    ELSE LET p == CHOOSE q \in S : TRUE
         IN  (IF ~tree[p].is_spent /\ tree2[p].is_spent
              THEN tree[p].note.value ELSE 0)
             + NewlySpentSum(tree, tree2, S \ {p})

\* C11: get_balance is, per pool, the sum of the values of the notes added
\* and not marked spent: adding a note that was not added before raises its
\* pool's balance by the note's value and leaves the other pool's balance
\* alone, and marking notes spent lowers the balance by the values of the
\* notes that become spent.
C11_BalanceAccounting ==
    [][/\ (/\ result'.op = "add_sapling_note"
           /\ sapling_notes'[Len(sapling_notes')] \notin Range(sapling_notes))
          => get_balance' =
                 <<get_balance[1] + sapling_notes'[Len(sapling_notes')].value,
                   get_balance[2]>>
       /\ (/\ result'.op = "add_orchard_note"
           /\ orchard_notes'[Len(orchard_notes')] \notin Range(orchard_notes))
          => get_balance' =
                 <<get_balance[1],
                   get_balance[2] + orchard_notes'[Len(orchard_notes')].value>>
       /\ result'.op \in {"mark_note_as_spent", "mark_note_as_spent_by_index"}
          => get_balance' =
                 <<get_balance[1]
                     - NewlySpentSum(db_sapling_notes, db_sapling_notes',
                                     DOMAIN db_sapling_notes),
                   get_balance[2]
                     - NewlySpentSum(db_orchard_notes, db_orchard_notes',
                                     DOMAIN db_orchard_notes)>>]_vars

----------------------------------------------------------------------------
(* Claims about balance, claim building and pure functions *)

\* the stored notes of a tree other than the one a nullifier belongs to
OtherNotes(tree, nf) == {p \in DOMAIN tree : nullifier(tree[p].note) # nf}

\* C12: after process_airdrop_transaction accepted a claim for a note, the
\* balance of the note's pool no longer counts that note: it is the sum of
\* the values of the pool's other unspent notes.
C12_AcceptedClaimLeavesBalance ==
    (/\ result = Ret("process_airdrop_transaction", "true")
     /\ tx.present)
    => IF tx.claim.pool = "sapling"
       THEN get_balance[1] =
                UnspentSum(db_sapling_notes,
                           OtherNotes(db_sapling_notes,
                                      get_airdrop_nullifier(tx)))
       ELSE get_balance[2] =
                UnspentSum(db_orchard_notes,
                           OtherNotes(db_orchard_notes,
                                      get_airdrop_nullifier(tx)))

SaplingBuilders ==
    {"create_sapling_airdrop_tx", "create_sapling_airdrop_tx_mut",
     "create_sapling_to_masp_airdrop_tx"}

OrchardBuilders ==
    {"create_orchard_airdrop_tx", "create_orchard_airdrop_tx_mut",
     "create_orchard_to_masp_airdrop_tx"}

\* a builder of the wallet has just returned a transaction
Built(builders) == result.op \in builders /\ result.ret = "ok"

\* C13: the airdrop nullifier of a claim transaction the wallet builds is the
\* derivation of section 4.1 applied to the claimed note, a note the wallet
\* holds in that pool.
C13_ClaimNullifierIsDerived ==
    /\ Built(SaplingBuilders)
       => \E n \in Range(sapling_notes) :
            /\ tx.claim.value_commitment = value_commitment(n)
            /\ tx.claim.airdrop_nullifier =
                 derive_sapling_airdrop_nullifier(n.nullifier_key,
                                                  n.randomness)
    /\ Built(OrchardBuilders)
       => \E n \in Range(orchard_notes) :
            /\ tx.claim.value_commitment = value_commitment(n)
            /\ tx.claim.airdrop_nullifier =
                 derive_orchard_airdrop_nullifier(n.nullifier_key, n.rho,
                                                  n.psi, n.note_commitment)

----------------------------------------------------------------------------
(* The pure functions of lib.rs, called at any time in the life of an       *)
(* in-memory wallet                                                         *)

MaxScalar == 1

\* Scalar / FieldElement / NoteCommitment arguments
Scalars == 0..MaxScalar

\* a derivation call as the history keeps it: the function, its arguments,
\* what it returned, and how many notes the wallet held at the call
DeriveCall(fn, args, value) ==
    [present |-> TRUE, fn |-> fn, args |-> args, ret |-> "ok",
     value |-> value, notes |-> Len(sapling_notes) + Len(orchard_notes)]

\* a call of AirdropNullifierDerivation::derive_sapling_airdrop_nullifier
DeriveSaplingAirdropNullifier ==
    /\ \E nullifier_key \in Scalars, rho \in Scalars :
         derived' =
             [prev |-> derived.last,
              last |-> DeriveCall("derive_sapling_airdrop_nullifier",
                                  <<nullifier_key, rho>>,
                                  derive_sapling_airdrop_nullifier(
                                      nullifier_key, rho))]
    /\ result' = Ret("derive_sapling_airdrop_nullifier", "ok")
    /\ UNCHANGED <<core_vars, db_vars, tx, accepted, submitted>>

\* a call of AirdropNullifierDerivation::derive_orchard_airdrop_nullifier
DeriveOrchardAirdropNullifier ==
    /\ \E nullifier_key \in Scalars, rho \in Scalars, psi \in Scalars,
          note_commitment \in Scalars :
         derived' =
             [prev |-> derived.last,
              last |-> DeriveCall("derive_orchard_airdrop_nullifier",
                                  <<nullifier_key, rho, psi, note_commitment>>,
                                  derive_orchard_airdrop_nullifier(
                                      nullifier_key, rho, psi,
                                      note_commitment))]
    /\ result' = Ret("derive_orchard_airdrop_nullifier", "ok")
    /\ UNCHANGED <<core_vars, db_vars, tx, accepted, submitted>>

\* FieldElement([b; 32])
FieldBytes(b) == [i \in 1..32 |-> b]

\* mutant: the membership check is left out
prove_not_blacklisted_NoCheck(nf, set) ==
    [ok |-> TRUE, polynomial_evaluation |-> FieldBytes(1),
     inverse |-> FieldBytes(1)]

\* NonMembershipProver::prove_not_blacklisted, as a value
prove_not_blacklisted(nf, set) ==
    IF nf \in set THEN [ok |-> FALSE]
    ELSE [ok |-> TRUE, polynomial_evaluation |-> FieldBytes(1),
          inverse |-> FieldBytes(1)]

\* a call of prove_not_blacklisted on any nullifier and any nullifier set
ProveNotBlacklisted ==
    /\ \E nf \in Nullifiers, set \in SUBSET Nullifiers :
         result' = [op |-> "prove_not_blacklisted",
                    nullifier |-> nf, nullifier_set |-> set,
                    ret |-> prove_not_blacklisted(nf, set)]
    /\ UNCHANGED <<core_vars, db_vars, tx, hist_vars>>

NextDerive ==
    \/ CoreAddSaplingNote
    \/ CoreAddOrchardNote
    \/ DeriveSaplingAirdropNullifier
    \/ DeriveOrchardAirdropNullifier

SpecDerive == InitCore /\ [][NextDerive]_vars

NextBlacklist ==
    \/ CoreAddSaplingNote
    \/ CoreAddOrchardNote
    \/ ProcessAirdropTransaction
    \/ CreateSaplingAirdropTx
    \/ ProveNotBlacklisted

SpecBlacklist == InitCore /\ [][NextBlacklist]_vars

\* the two derivation calls the history holds are calls of the same function
\* on the same arguments
SameCallTwice ==
    /\ derived.prev.present
    /\ derived.last.present
    /\ derived.prev.fn = derived.last.fn
    /\ derived.prev.args = derived.last.args

C17_NotBlacklistedIffNotMember ==
    result.op = "prove_not_blacklisted"
    => /\ ~result.ret.ok <=> result.nullifier \in result.nullifier_set
       /\ result.ret.ok => result.ret.polynomial_evaluation # FieldBytes(0)

C17_Witness ==
    /\ result.op = "prove_not_blacklisted"
    /\ result.nullifier \in result.nullifier_set
    /\ Cardinality(result.nullifier_set) = 2
    /\ ~result.ret.ok

\* C15: a builder called with a note index that is not less than the number
\* of notes of its pool returns the invalid-note-index error, hands no
\* transaction to the caller and leaves the wallet, in memory and on disk,
\* as it was.
C15_InvalidNoteIndexRejected ==
    [][/\ (/\ result'.op \in SaplingBuilders
           /\ result'.note_index >= Len(sapling_notes))
          => /\ result'.ret = "invalid_note_index"
             /\ UNCHANGED <<tx, core_vars, db_vars>>
       /\ (/\ result'.op \in OrchardBuilders
           /\ result'.note_index >= Len(orchard_notes))
          => /\ result'.ret = "invalid_note_index"
             /\ UNCHANGED <<tx, core_vars, db_vars>>]_vars

C15_Witness ==
    /\ result.op = "create_sapling_airdrop_tx_mut"
    /\ result.ret = "invalid_note_index"
    /\ Len(sapling_notes) = 1
    /\ result.note_index = 1
    /\ tx.present
    /\ \E p \in DOMAIN db_sapling_notes : ~db_sapling_notes[p].is_spent

\* C16: a call of process_airdrop_transaction that does not accept leaves
\* the notes, both nullifier sets and the stored state unchanged, and every
\* call, a later one with a corrected transaction included, is decided by
\* validate against the registry as it then is.
C16_RejectionChangesNothing ==
    [][result'.op = "process_airdrop_transaction"
       => /\ result'.ret # "true" => UNCHANGED <<core_vars, db_vars, tx>>
          /\ result'.ret = "true" <=> validate(tx, airdrop_nullifier_set)]_vars

C16_Witness ==
    /\ result = Ret("process_airdrop_transaction", "true")
    /\ tx.claim.pool = "sapling"
    /\ "orchard" \in submitted
    /\ airdrop_nullifier_set = {get_airdrop_nullifier(tx)}
    /\ Len(orchard_notes) = 1

\* C18: every claim transaction the wallet builds mints the claimed value:
\* the mint description's value commitment commits to the same value as the
\* claim statement's value commitment.
C18_MintCommitsToClaimedValue ==
    Built(SaplingBuilders \cup OrchardBuilders)
    => tx.mint.value_commitment = tx.claim.value_commitment

----------------------------------------------------------------------------
(* Claims about closing and reopening the note store (SpecBalance) *)

\* no two notes of the list are at the same position
DistinctPositions(notes) ==
    \A i, j \in 1..Len(notes) : notes[i].position = notes[j].position => i = j

\* the in-memory list holds the note of every record of the tree, each once
HoldsStoredNotes(notes, tree) ==
    /\ Range(notes) = StoredNotes(tree)
    /\ Len(notes) = Cardinality(DOMAIN tree)

\* C19: after add-note and mark-spent operations, closing the wallet and
\* opening it with load leaves every stored note record (note, spent flag,
\* timestamps) and the stored metadata as they were, and the loaded wallet
\* holds exactly the stored notes, the stored nullifier sets and the stored
\* metadata; a wallet whose notes are at distinct positions holds the same
\* notes as before it was closed.
C19_SaveLoadRoundTrip ==
    [][result'.op = "load"
       => /\ UNCHANGED db_vars
          /\ HoldsStoredNotes(sapling_notes', db_sapling_notes)
          /\ HoldsStoredNotes(orchard_notes', db_orchard_notes)
          /\ nullifier_set' = nullifier_set
          /\ airdrop_nullifier_set' = airdrop_nullifier_set
          /\ metadata' = db_metadata[1]
          /\ DistinctPositions(sapling_notes)
             => Range(sapling_notes') = Range(sapling_notes)
          /\ DistinctPositions(orchard_notes)
             => Range(orchard_notes') = Range(orchard_notes)]_vars

C19_Witness ==
    /\ result = Ret("load", "ok")
    /\ Len(sapling_notes) = 1
    /\ Len(orchard_notes) = 1
    /\ \E p \in DOMAIN db_sapling_notes :
         /\ db_sapling_notes[p].is_spent
         /\ db_sapling_notes[p].last_used # None
    /\ \E p \in DOMAIN db_orchard_notes : ~db_orchard_notes[p].is_spent

----------------------------------------------------------------------------
(* Claims about the in-memory wallet (SpecCore), continued *)

\* C20: on a wallet holding one Orchard note, the first transaction built
\* with create_orchard_airdrop_tx that is processed, the claim registry being
\* empty, is accepted, and every later one built from the note is rejected.
C20_OrchardDoubleSpendRejected ==
    [][(/\ ProcessAirdropTransaction
        /\ Len(orchard_notes) = 1
        /\ tx.claim.pool = "orchard")
       => /\ ("orchard" \notin submitted /\ airdrop_nullifier_set = {})
             => result'.ret = "true"
          /\ "orchard" \in submitted => result'.ret = "false"]_vars


----------------------------------------------------------------------------
(* Claims about the order of validate's checks (SpecValidate) *)

\* the verifier validate calls for the claim variant of t
ClaimProofVerifies(t) ==
    IF t.claim.pool = "sapling" THEN verify_claim_sapling(t.claim)
    ELSE verify_claim_orchard(t.claim)

ValidateOutcomes ==
    {"claim_proof_invalid", "nullifier_used", "equivalence_proof_invalid",
     "commitment_mismatch", "accepted"}

\* what a validate call has decided, given the checks it has passed
ChecksInOrder ==
    result.op = "validate" =>
        LET proof_ok == ClaimProofVerifies(tx)
            used     == tx.claim.airdrop_nullifier \in airdrop_nullifier_set
        IN /\ result.ret \in ValidateOutcomes
           /\ ~proof_ok => result.ret = "claim_proof_invalid"
           /\ (proof_ok /\ used) => result.ret = "nullifier_used"
           /\ result.ret \in {"equivalence_proof_invalid", "commitment_mismatch"}
                  => (proof_ok /\ ~used)
           /\ result.ret = "commitment_mismatch" => verify_equivalence(tx.equiv)

\* C21: validate verifies the claim proof first, consults the nullifier
\* registry only when the proof verified, runs the equivalence checks only
\* when the nullifier was absent, and leaves with exactly one outcome; the
\* pass changes neither the transaction nor the wallet, so nothing is retried.
C21_ChecksInOrderShortCircuit ==
    /\ []ChecksInOrder
    /\ [][result'.op = "validate" => UNCHANGED <<core_vars, tx>>]_vars

\* a validate call on a transaction that fails all three checks at once
C21_Witness ==
    /\ result.op = "validate"
    /\ ~ClaimProofVerifies(tx)
    /\ tx.claim.airdrop_nullifier \in airdrop_nullifier_set
    /\ tx.equiv.present
    /\ ~verify_equivalence(tx.equiv)
    /\ result.ret = "claim_proof_invalid"


----------------------------------------------------------------------------
(* Claims about the nullifier registries *)

\* C22: a nullifier that is in the spend set or in the airdrop/claim set is
\* still in that set after every wallet operation.
C22_NullifierSetsInsertionOnly ==
    [][/\ nullifier_set \subseteq nullifier_set'
       /\ airdrop_nullifier_set \subseteq airdrop_nullifier_set']_vars


----------------------------------------------------------------------------
(* The in-memory wallet with a spend registry that is in use *)

\* a caller records an ordinary spend: wallet.nullifier_set.insert(nf)
SpendNullifierInsert ==
    /\ \E nf \in Nullifiers :
         /\ nf \notin nullifier_set
         /\ nullifier_set' = nullifier_set \cup {nf}
    /\ result' = Ret("nullifier_set_insert", "unit")
    /\ UNCHANGED <<sapling_notes, orchard_notes, airdrop_nullifier_set,
                   db_vars, tx, hist_vars>>

NextRegistries ==
    \/ CoreAddSaplingNote
    \/ CoreAddOrchardNote
    \/ SpendNullifierInsert
    \/ CreateSaplingAirdropTx
    \/ CreateOrchardAirdropTx
    \/ ProcessAirdropTransaction

SpecRegistries == InitCore /\ [][NextRegistries]_vars

\* t without the snapshot of the spend registry it carries
WithoutSnapshot(t) == [t EXCEPT !.claim.nullifier_set = <<>>]

\* C23: process_airdrop_transaction changes neither the spend nullifier set
\* nor the note lists, writes the claim set only by inserting the accepted
\* nullifier, and accepts or rejects by the claim set alone: neither the
\* spend set nor the copy of it inside the transaction has any influence.
C23_RegistriesIndependent ==
    [][result'.op = "process_airdrop_transaction" =>
         /\ UNCHANGED <<nullifier_set, sapling_notes, orchard_notes>>
         /\ airdrop_nullifier_set' \in
                {airdrop_nullifier_set,
                 airdrop_nullifier_set \cup {get_airdrop_nullifier(tx)}}
         /\ (result'.ret = "true")
                <=> validate(WithoutSnapshot(tx), airdrop_nullifier_set)]_vars

\* a claim was accepted although its nullifier is in the spend set
C23_Witness ==
    /\ result.op = "process_airdrop_transaction"
    /\ result.ret = "true"
    /\ get_airdrop_nullifier(tx) \in nullifier_set
    /\ get_airdrop_nullifier(tx) \in Range(tx.claim.nullifier_set)
    /\ get_airdrop_nullifier(tx) \in airdrop_nullifier_set


----------------------------------------------------------------------------
(* Claims about the transaction builders (Spec) *)

BuilderOps ==
    {"create_sapling_airdrop_tx", "create_orchard_airdrop_tx",
     "create_sapling_airdrop_tx_mut", "create_orchard_airdrop_tx_mut",
     "create_sapling_to_masp_airdrop_tx", "create_orchard_to_masp_airdrop_tx"}

\* C24: every operation that builds a claim transaction leaves the note
\* inventory, every note's spent flag and both nullifier sets unchanged.
C24_AssemblyIsPure ==
    [][result'.op \in BuilderOps =>
         UNCHANGED <<sapling_notes, orchard_notes, nullifier_set,
                     airdrop_nullifier_set, db_sapling_notes,
                     db_orchard_notes>>]_vars


----------------------------------------------------------------------------
(* Claims about marking notes spent (SpecBalance) *)

\* the notes of the pool that mark_note_as_spent_by_index looks the index up in
PoolNotes(note_type) ==
    IF note_type = "sapling" THEN sapling_notes ELSE orchard_notes

\* C25: mark_note_as_spent_by_index with a note index that is not less than
\* the number of notes of the given pool does not report success, and changes
\* no note record.
C25_IndexOutOfRangeIsError ==
    [][(/\ result'.op = "mark_note_as_spent_by_index"
        /\ result'.note_type \in {"sapling", "orchard"}
        /\ result'.note_index >= Len(PoolNotes(result'.note_type)))
       => /\ result'.ret # "ok"
          /\ UNCHANGED <<db_sapling_notes, db_orchard_notes>>]_vars


----------------------------------------------------------------------------
(* The note store when a sled call returns Err *)

\* the outcomes of a tree.insert / tree.flush pair of which one returned Err:
\* a failed insert (or open_tree) wrote nothing; after a failed flush the
\* inserted record is in the tree, and may or may not have reached the disk
FailedWrite(tree, record) == {tree, TreeInsert(tree, record)}

\* add_sapling_note returns at the `?` of open_tree, insert or flush
\* (wallet.rs 205-207), before core_wallet.add_sapling_note
AddSaplingNoteStorageError ==
    /\ Len(sapling_notes) + Len(orchard_notes) < MaxNotes
    /\ \E note \in SaplingNotes, t \in Times :
         db_sapling_notes' \in
             FailedWrite(db_sapling_notes, NewNoteRecord(note, t))
    /\ result' = Ret("add_sapling_note", "storage_err")
    /\ UNCHANGED <<core_vars, metadata, db_metadata, db_orchard_notes,
                   db_nullifier_set, db_airdrop_nullifier_set,
                   db_transactions, tx, hist_vars>>

\* add_orchard_note returns at the `?` of open_tree, insert or flush
\* (wallet.rs 233-235)
AddOrchardNoteStorageError ==
    /\ Len(sapling_notes) + Len(orchard_notes) < MaxNotes
    /\ \E note \in OrchardNotes, t \in Times :
         db_orchard_notes' \in
             FailedWrite(db_orchard_notes, NewNoteRecord(note, t))
    /\ result' = Ret("add_orchard_note", "storage_err")
    /\ UNCHANGED <<core_vars, metadata, db_metadata, db_sapling_notes,
                   db_nullifier_set, db_airdrop_nullifier_set,
                   db_transactions, tx, hist_vars>>

\* mark_note_as_spent returns at the `?` of open_tree, get or insert
\* (wallet.rs 514, 515, 525, 537); it does not flush
MarkNoteAsSpentStorageError ==
    /\ \E note_type \in {"sapling", "orchard"}, position \in Positions :
         mark_note_as_spent(note_type, position, 0).ok
    /\ result' = Ret("mark_note_as_spent", "storage_err")
    /\ UNCHANGED <<core_vars, db_vars, tx, hist_vars>>

\* import_data of a blob that parses, where the k-th add_*_note call returns
\* a storage error (wallet.rs 491, 495): the in-memory state was cleared
\* (484-487), the notes before the k-th were added, and the nullifier loops
\* (498-504) are not reached
ImportDataStorageError ==
    \E blob \in {b \in ImportBlobs : b.parses} :
      LET ns == Len(blob.sapling_notes)
          no == Len(blob.orchard_notes)
      IN  \E k \in 1..(ns + no), ts \in [1..(ns + no) -> Times] :
            LET done_s == IF k - 1 < ns THEN k - 1 ELSE ns
                done_o == IF k - 1 < ns THEN 0 ELSE k - 1 - ns
                added_s == SubSeq(blob.sapling_notes, 1, done_s)
                added_o == SubSeq(blob.orchard_notes, 1, done_o)
                tree_s == TreeInsertAll(db_sapling_notes, added_s, ts, 1)
                tree_o == TreeInsertAll(db_orchard_notes, added_o,
                                        [j \in 1..done_o |-> ts[ns + j]], 1)
            IN  /\ sapling_notes' = added_s
                /\ orchard_notes' = added_o
                /\ nullifier_set' = {}
                /\ airdrop_nullifier_set' = {}
                /\ IF k <= ns
                   THEN /\ db_sapling_notes' \in
                               FailedWrite(tree_s,
                                   NewNoteRecord(blob.sapling_notes[k], ts[k]))
                        /\ db_orchard_notes' = tree_o
                   ELSE /\ db_sapling_notes' = tree_s
                        /\ db_orchard_notes' \in
                               FailedWrite(tree_o,
                                   NewNoteRecord(blob.orchard_notes[k - ns],
                                                 ts[k]))
                /\ result' = [op |-> "import_data", ret |-> "storage_err",
                              blob |-> blob, exported |-> blob \in ExportBlobs]
                /\ UNCHANGED <<metadata, db_metadata, db_nullifier_set,
                               db_airdrop_nullifier_set, db_transactions,
                             tx, hist_vars>>

NextStorage ==
    \/ Load
    \/ AddSaplingNote
    \/ AddOrchardNote
    \/ MarkNoteAsSpent
    \/ AddSaplingNoteStorageError
    \/ AddOrchardNoteStorageError
    \/ MarkNoteAsSpentStorageError
    \/ ImportDataStorageError

SpecStorage == Init /\ [][NextStorage]_vars

\* C26: when a persistence write fails during add_sapling_note,
\* add_orchard_note, mark_note_as_spent or import_data, the operation returns
\* an error and the notes, both nullifier sets and the persisted note records
\* are as they were before the call.
C26_StorageFailureChangesNothing ==
    [][result'.ret = "storage_err" =>
         UNCHANGED <<sapling_notes, orchard_notes, nullifier_set,
                     airdrop_nullifier_set, db_sapling_notes,
                     db_orchard_notes>>]_vars


----------------------------------------------------------------------------
(* Transaction records (wallet.rs record_transaction) *)

\* the number of values of a u8: value_commitment[0] is one byte
U8_RANGE == 256

\* a note value that does not fit into one byte
MaxRecordValue == 257

RecordValues == {1, MaxRecordValue}

RecordSaplingNotes ==
    [diversifier : {0}, value : RecordValues, note_commitment : {1},
     nullifier_key : {2}, randomness : {3}, position : Positions]

RecordOrchardNotes ==
    [diversifier : {0}, value : RecordValues, note_commitment : {1},
     nullifier_key : {2}, randomness : {3}, position : Positions,
     rho : {4}, psi : {5}]

TxHashes == {"tx_a", "tx_b"}

\* claim.value_commitment[0] as u64: the lowest byte of the little-endian
\* value the commitment holds
FirstByte(commitment) == commitment % U8_RANGE

\* record_transaction: the amount it stores
RecordedAmount(t) == FirstByte(t.claim.value_commitment)

\* the TransactionRecord that record_transaction(t, tx_hash) builds at time now
TransactionRecord(t, tx_hash, now) ==
    [tx_hash |-> tx_hash,
     airdrop_nullifier |-> Entry(get_airdrop_nullifier(t)),
     amount |-> RecordedAmount(t),
     recipient |-> "masp_recipient",
     status |-> "pending",
     created_at |-> now,
     confirmed_at |-> None,
     block_height |-> None]

\* wallet.rs AirdropWallet::record_transaction(&tx, tx_hash)
RecordTransaction ==
    /\ tx.present
    /\ \E tx_hash \in TxHashes, now \in Times :
         /\ db_transactions' =
                (tx_hash :> TransactionRecord(tx, tx_hash, now))
                    @@ db_transactions
         /\ result' = [op |-> "record_transaction", tx_hash |-> tx_hash,
                       ret |-> "ok"]
    /\ UNCHANGED <<core_vars, metadata, db_metadata, db_sapling_notes,
                   db_orchard_notes, db_nullifier_set,
                   db_airdrop_nullifier_set, tx, hist_vars>>

AddSaplingNoteAnyAmount == AddSaplingNoteFrom(RecordSaplingNotes)

AddOrchardNoteAnyAmount == AddOrchardNoteFrom(RecordOrchardNotes)

NextRecord ==
    \/ AddSaplingNoteAnyAmount
    \/ AddOrchardNoteAnyAmount
    \/ CreateSaplingAirdropTx
    \/ CreateOrchardAirdropTx
    \/ ProcessAirdropTransaction
    \/ RecordTransaction

SpecRecord == Init /\ [][NextRecord]_vars

\* the record that the record_transaction call just made has stored
NewRecord == db_transactions[result.tx_hash]

\* the transaction the caller holds was accepted by this wallet: a
\* process_airdrop_transaction call for its pool put its nullifier into the
\* claim registry
AcceptedLocally(t) ==
    /\ t.claim.pool \in submitted
    /\ get_airdrop_nullifier(t) \in airdrop_nullifier_set

\* C27: record_transaction stores a record only for a transaction that was
\* accepted locally; the record has status "pending", no confirmation time,
\* no block height, and the transaction's airdrop nullifier.
C27_RecordOnlyForAccepted ==
    [][result'.op = "record_transaction" =>
         /\ AcceptedLocally(tx)
         /\ NewRecord'.status = "pending"
         /\ NewRecord'.confirmed_at = None
         /\ NewRecord'.block_height = None
         /\ NewRecord'.airdrop_nullifier = Entry(get_airdrop_nullifier(tx))]_vars

\* C28: the amount record_transaction stores equals the value of the claimed
\* note, the value held by the claim's value commitment, for every note value.
C28_RecordedAmountIsNoteValue ==
    [][result'.op = "record_transaction" =>
         NewRecord'.amount = tx.claim.value_commitment]_vars


----------------------------------------------------------------------------
(* Note values against the maximum supply *)

\* zatoshis in one coin, and the maximum supply in coins:
\* const MAX_MONEY: u64 = 21_000_000 * 100_000_000.  The product does not fit
\* the model checker's integers, so the notes below carry their value in
\* coins: a value v stands for v * COIN zatoshis.
COIN == 100000000

MAX_MONEY == 21000000

\* note values in coins: small, the maximum supply, and one coin more
MoneyValues == {1, MAX_MONEY, MAX_MONEY + 1}

MoneySaplingNotes ==
    [diversifier : {0}, value : MoneyValues, note_commitment : {1},
     nullifier_key : {2}, randomness : {3}, position : Positions]

MoneyOrchardNotes ==
    [diversifier : {0}, value : MoneyValues, note_commitment : {1},
     nullifier_key : {2}, randomness : {3}, position : Positions,
     rho : {4}, psi : {5}]

AddSaplingNoteAnyMoney == AddSaplingNoteFrom(MoneySaplingNotes)

AddOrchardNoteAnyMoney == AddOrchardNoteFrom(MoneyOrchardNotes)

NextMoney ==
    \/ Load
    \/ AddSaplingNoteAnyMoney
    \/ AddOrchardNoteAnyMoney
    \/ MarkNoteAsSpent

SpecMoney == Init /\ [][NextMoney]_vars

\* the notes the wallet holds, in memory and in its note trees
HeldNotes ==
    Range(sapling_notes) \cup Range(orchard_notes)
        \cup StoredNotes(db_sapling_notes) \cup StoredNotes(db_orchard_notes)

\* C29: every note held by a wallet has a value not greater than the maximum
\* supply MAX_MONEY.
C29_NoteValueWithinMaxMoney ==
    \A note \in HeldNotes : note.value <= MAX_MONEY


----------------------------------------------------------------------------
(* Claims about the snapshot inside a claim statement (SpecRegistries) *)

\* C30: the nullifier list inside a claim statement holds exactly the members
\* of the wallet's nullifier set at the moment the statement is built, each
\* once, and stays as it is when nullifiers are inserted into either registry
\* afterwards.
C30_SnapshotAtBuildTime ==
    [][/\ (/\ result'.op \in {"create_sapling_airdrop_tx",
                              "create_orchard_airdrop_tx"}
           /\ result'.ret = "ok")
          => /\ Range(tx'.claim.nullifier_set) = nullifier_set
             /\ Len(tx'.claim.nullifier_set) = Cardinality(nullifier_set)
       /\ (/\ tx.present
           /\ \/ nullifier_set' # nullifier_set
              \/ airdrop_nullifier_set' # airdrop_nullifier_set)
          => tx'.claim.nullifier_set = tx.claim.nullifier_set]_vars

\* a transaction whose snapshot is not empty, after both registries grew
C30_Witness ==
    /\ tx.present
    /\ tx.claim.nullifier_set # <<>>
    /\ Range(tx.claim.nullifier_set) # nullifier_set
    /\ get_airdrop_nullifier(tx) \in airdrop_nullifier_set
    /\ result.op = "nullifier_set_insert"


----------------------------------------------------------------------------
(* Claims about the nullifier accessor (SpecValidate) *)

\* C31: for a transaction of either claim variant get_airdrop_nullifier is
\* the airdrop_nullifier stored in the claim statement, and on acceptance
\* process_airdrop_transaction inserts exactly that value into the claim
\* registry.
C31_AccessorIsClaimNullifier ==
    /\ [](tx.present => get_airdrop_nullifier(tx) = tx.claim.airdrop_nullifier)
    /\ [][(/\ result'.op = "process_airdrop_transaction"
           /\ result'.ret = "true")
          => airdrop_nullifier_set' =
                 airdrop_nullifier_set \cup {tx.claim.airdrop_nullifier}]_vars

\* an Orchard claim was accepted into a registry that held another nullifier
C31_Witness ==
    /\ result.op = "process_airdrop_transaction"
    /\ result.ret = "true"
    /\ tx.claim.pool = "orchard"
    /\ tx.claim.airdrop_nullifier \in airdrop_nullifier_set
    /\ airdrop_nullifier_set # {tx.claim.airdrop_nullifier}


----------------------------------------------------------------------------
(* Claims about mark_note_as_spent (SpecBalance) *)

\* the tree "<note_type>_notes" holds a record under "<note_type>_<position>"
HasRecord(note_type, position) ==
    \/ note_type = "sapling" /\ position \in DOMAIN db_sapling_notes
    \/ note_type = "orchard" /\ position \in DOMAIN db_orchard_notes

\* C32: mark_note_as_spent for a note type and position without a stored
\* record, or for a note type other than "sapling" and "orchard", returns an
\* error, and no note record is created or changed.
C32_MissingNoteIsError ==
    [][(/\ result'.op = "mark_note_as_spent"
        /\ result'.ret # "storage_err"
        /\ ~HasRecord(result'.note_type, result'.position))
       => /\ result'.ret = "err"
          /\ UNCHANGED <<db_sapling_notes, db_orchard_notes, sapling_notes,
                         orchard_notes>>]_vars

\* a call with an unknown note type for a position that the Sapling tree
\* holds, and a call for the Orchard tree that lacks that position
C32_Witness ==
    /\ result.op = "mark_note_as_spent"
    /\ result.ret = "err"
    /\ result.note_type \in {"other", "orchard"}
    /\ result.position \in DOMAIN db_sapling_notes
    /\ ~HasRecord(result.note_type, result.position)
    /\ ~db_sapling_notes[result.position].is_spent


----------------------------------------------------------------------------
(* Claims about the note inventory and the note trees *)

\* every note of the list has exactly one record in the tree, and every
\* record of the tree has exactly one note in the list
OneToOne(notes, tree) ==
    /\ \A i \in 1..Len(notes) :
         Cardinality({p \in DOMAIN tree : tree[p].note = notes[i]}) = 1
    /\ \A p \in DOMAIN tree :
         Cardinality({i \in 1..Len(notes) : notes[i] = tree[p].note}) = 1

\* C33: in every reachable state of the persistent wallet the in-memory note
\* inventory and the persisted note collection of each pool hold the same
\* notes, one stored record per in-memory note and one in-memory note per
\* stored record.
C33_InventoryMatchesStore ==
    /\ OneToOne(sapling_notes, db_sapling_notes)
    /\ OneToOne(orchard_notes, db_orchard_notes)


----------------------------------------------------------------------------
(* The wallet with notes of different values, building and processing claims *)

NextClaims ==
    \/ AddSaplingNoteAnyValue
    \/ AddOrchardNoteAnyValue
    \/ CreateSaplingAirdropTx
    \/ CreateOrchardAirdropTx
    \/ ProcessAirdropTransaction

SpecClaims == Init /\ [][NextClaims]_vars

\* the notes of the wallet, each with its pool
PoolNotePairs ==
    {<<"sapling", note>> : note \in Range(sapling_notes)}
        \cup {<<"orchard", note>> : note \in Range(orchard_notes)}

\* the transaction create_*_airdrop_tx builds for a note of the wallet
ClaimOf(pn) ==
    LET list == CHOOSE l \in Orderings(nullifier_set) : TRUE
        addr == CHOOSE a \in Addresses : TRUE
    IN  IF pn[1] = "sapling"
        THEN create_sapling_to_masp_airdrop(pn[2], list, masp_recipient(addr))
        ELSE create_orchard_to_masp_airdrop(pn[2], list, masp_recipient(addr))

\* C34: for any two distinct notes of a wallet, of the same pool or not, the
\* transactions the wallet builds for them carry different airdrop
\* nullifiers, and having the nullifier of one in the claim registry does not
\* turn the acceptance of the other's claim into a rejection.
C34_DistinctNotesDoNotInterfere ==
    \A a, b \in PoolNotePairs :
        a # b =>
          /\ get_airdrop_nullifier(ClaimOf(a)) # get_airdrop_nullifier(ClaimOf(b))
          /\ validate(ClaimOf(b), airdrop_nullifier_set)
                 => validate(ClaimOf(b),
                             InsertAccepted(airdrop_nullifier_set, ClaimOf(a)))


----------------------------------------------------------------------------
(* Claims about repeated construction (Spec) *)

MutBuilderOps ==
    {"create_sapling_airdrop_tx_mut", "create_orchard_airdrop_tx_mut"}

\* the note at note_index of the pool a create_*_airdrop_tx_mut call works on
\* has a stored record that is marked spent
SpentAtIndex(op, note_index) ==
    LET sapling == op = "create_sapling_airdrop_tx_mut"
        notes == IF sapling THEN sapling_notes ELSE orchard_notes
        tree  == IF sapling THEN db_sapling_notes ELSE db_orchard_notes
    IN  /\ note_index < Len(notes)
        /\ notes[note_index + 1].position \in DOMAIN tree
        /\ tree[notes[note_index + 1].position].is_spent

\* C35: a note already marked spent, as it is after create_sapling_airdrop_tx_mut
\* or create_orchard_airdrop_tx_mut succeeded for its index, is not used
\* again: a further call on the same note index does not produce another
\* claim transaction.
C35_SpentNoteNotClaimedAgain ==
    [][(/\ result'.op \in MutBuilderOps
        /\ SpentAtIndex(result'.op, result'.note_index))
       => result'.ret # "ok"]_vars


----------------------------------------------------------------------------
(* Claims about the note records as an audit trail (SpecImport) *)

\* every record of the tree is still stored after the step, for the same
\* note, and still spent if it was spent
RecordsKept(tree, tree2) ==
    \A p \in DOMAIN tree :
        /\ p \in DOMAIN tree2
        /\ tree2[p].note = tree[p].note
        /\ tree[p].is_spent => tree2[p].is_spent

\* C36: once a note record's is_spent is true it stays true, and a stored note
\* record is never deleted or replaced by a different note, under any sequence
\* of add_sapling_note, add_orchard_note, mark_note_as_spent and import_data.
C36_SpentMonotoneRecordsKept ==
    [][/\ RecordsKept(db_sapling_notes, db_sapling_notes')
       /\ RecordsKept(db_orchard_notes, db_orchard_notes')]_vars


----------------------------------------------------------------------------
(* Claims about note indices across a reload (SpecBalance) *)

\* every index of the list refers to the same note in the second list
SameIndices(notes, notes2) ==
    \A i \in 1..Len(notes) : i <= Len(notes2) /\ notes2[i] = notes[i]

\* C37: a note at index i of a pool's in-memory list is at index i of that
\* pool again after the wallet was closed and opened with load (checked for
\* wallets whose notes are at distinct positions, so that every note has its
\* own stored record).
C37_IndicesStableAcrossLoad ==
    [][(/\ result'.op = "load"
        /\ DistinctPositions(sapling_notes)
        /\ DistinctPositions(orchard_notes))
       => /\ SameIndices(sapling_notes, sapling_notes')
          /\ SameIndices(orchard_notes, orchard_notes')]_vars


----------------------------------------------------------------------------
(* get_balance in 64-bit arithmetic *)

\* 2^64 counted in units of 2^62: the notes below carry their value in that
\* unit (a value v stands for v * 2^62), so that sums past the range of a u64
\* stay within the model checker's integers
U64_RANGE == 4

\* the u64 values that are multiples of the unit
WideValues == 1..(U64_RANGE - 1)

WideSaplingNotes ==
    [diversifier : {0}, value : WideValues, note_commitment : {1},
     nullifier_key : {2}, randomness : {3}, position : Positions]

WideOrchardNotes ==
    [diversifier : {0}, value : WideValues, note_commitment : {1},
     nullifier_key : {2}, randomness : {3}, position : Positions,
     rho : {4}, psi : {5}]

AddSaplingNoteWide == AddSaplingNoteFrom(WideSaplingNotes)

AddOrchardNoteWide == AddOrchardNoteFrom(WideOrchardNotes)

\* what `balance += note.value` over the unspent records of a tree yields in
\* u64: the sum when it fits; otherwise the build decides, an overflow panic
\* with overflow checks, the wrapped sum without
BalanceOutcomes(tree) ==
    LET sum == UnspentSum(tree, DOMAIN tree)
    IN  IF sum < U64_RANGE THEN {[panic |-> FALSE, balance |-> sum]}
        ELSE {[panic |-> TRUE, balance |-> 0],
              [panic |-> FALSE, balance |-> sum % U64_RANGE]}

\* a call of get_balance()
GetBalance ==
    /\ \E s \in BalanceOutcomes(db_sapling_notes),
          o \in BalanceOutcomes(db_orchard_notes) :
         result' = IF s.panic \/ o.panic
                   THEN [op |-> "get_balance", ret |-> "panic"]
                   ELSE [op |-> "get_balance", ret |-> "ok",
                         balance |-> <<s.balance, o.balance>>]
    /\ UNCHANGED <<core_vars, db_vars, tx, hist_vars>>

NextOverflow ==
    \/ AddSaplingNoteWide
    \/ AddOrchardNoteWide
    \/ MarkNoteAsSpent
    \/ GetBalance

SpecOverflow == Init /\ [][NextOverflow]_vars

\* C38: get_balance never overflows: the call returns, and the balance of
\* each pool is the exact sum of the values of its unspent note records.
C38_BalanceNeverOverflows ==
    result.op = "get_balance" =>
        /\ result.ret = "ok"
        /\ result.balance = get_balance


----------------------------------------------------------------------------
(* find_eligible_notes *)

\* mutant: a note whose value equals min_value is left out
find_eligible_notes_Strict(min_value) ==
    <<SelectSeq(sapling_notes, LAMBDA note : note.value > min_value),
      SelectSeq(orchard_notes, LAMBDA note : note.value > min_value)>>

\* lib.rs AirdropWallet::find_eligible_notes: iter().filter(..).collect()
\* over each list
find_eligible_notes(min_value) ==
    <<SelectSeq(sapling_notes, LAMBDA note : note.value >= min_value),
      SelectSeq(orchard_notes, LAMBDA note : note.value >= min_value)>>

\* the min_value arguments tried: below, at and above the note values
MinValues == 0..(MaxBalanceValue + 1)

\* a call of find_eligible_notes(min_value)
FindEligibleNotes ==
    /\ \E min_value \in MinValues :
         result' = [op |-> "find_eligible_notes", min_value |-> min_value,
                    ret |-> find_eligible_notes(min_value)]
    /\ UNCHANGED <<core_vars, db_vars, tx, hist_vars>>

NextEligible ==
    \/ AddSaplingNoteAnyValue
    \/ AddOrchardNoteAnyValue
    \/ CreateSaplingAirdropTx
    \/ ProcessAirdropTransaction
    \/ MarkNoteAsSpent
    \/ FindEligibleNotes

SpecEligible == Init /\ [][NextEligible]_vars

\* out lists the notes of the list whose value is at least min_value, each
\* as often as the list holds it and in the order of the list
ExactlyEligible(out, notes, min_value) ==
    LET idx == {i \in 1..Len(notes) : notes[i].value >= min_value}
        nth(k) == CHOOSE i \in idx : Cardinality({j \in idx : j < i}) = k - 1
    IN  /\ Len(out) = Cardinality(idx)
        /\ \A k \in 1..Len(out) : out[k] = notes[nth(k)]

\* C39: find_eligible_notes(min_value) returns for each pool exactly the
\* wallet's notes whose value is at least min_value, in inventory order,
\* whether or not a note was claimed or marked spent, and leaves the wallet
\* unchanged.
C39_EligibleNotesExact ==
    /\ [](result.op = "find_eligible_notes" =>
            /\ ExactlyEligible(result.ret[1], sapling_notes, result.min_value)
            /\ ExactlyEligible(result.ret[2], orchard_notes, result.min_value))
    /\ [][result'.op = "find_eligible_notes" =>
            UNCHANGED <<core_vars, db_vars, tx>>]_vars

\* the call returned one of two Sapling notes, a note whose value equals
\* min_value, whose claim was accepted and whose record is marked spent
C39_Witness ==
    /\ result.op = "find_eligible_notes"
    /\ Len(sapling_notes) = 2
    /\ Len(result.ret[1]) = 1
    /\ result.ret[1][1] = sapling_notes[2]
    /\ result.ret[1][1].value = result.min_value
    /\ nullifier(result.ret[1][1]) \in airdrop_nullifier_set
    /\ result.ret[1][1].position \in DOMAIN db_sapling_notes
    /\ db_sapling_notes[result.ret[1][1].position].is_spent

====
